---- MODULE Spec2Model ----
(***************************************************************************)
(* Interleaved Bloom Filter (BinningDirectory<InterleavedBloomFilter>).    *)
(*                                                                         *)
(* The filter is the record ibf whose fields carry the names of the class  *)
(* members.  64-bit unsigned values are kept as 8 little-endian bytes so   *)
(* that the wrapping multiply and the xor-shift of hashToIndex are         *)
(* computed with their width.  A 64-bit word read from the bit vector is   *)
(* the set of its set bit offsets (0..63).                                 *)
(***************************************************************************)
EXTENDS Integers, Sequences, FiniteSets, TLC

(***************************************************************************)
(* Bounds of the model.                                                    *)
(***************************************************************************)
\* longest text handed to insertKmer / count / select
MaxLen == 3
\* number of member calls made on filters in one run
MaxOps == 3
\* number of threads that call insertKmer concurrently
NThreads == 2
\* largest thread count handed to clear
MaxThreads == 3
\* number of tasks after which the task loop of clear is no longer followed
MaxTasks == 258

\* threads sharing one Semaphore
NWaiters == 3

\* critical sections each thread goes through
MaxSections == 2

\* runs of one bin the indexer's tasks are followed for
MaxVisits == 2

(***************************************************************************)
(* Program constants.                                                      *)
(***************************************************************************)
intSize == 64
shiftValue == 27
\* 0x90b45d39fb6da1fa, least significant byte first
seedValue == <<250, 161, 109, 251, 57, 93, 180, 144>>
\* TChunks::VALUE of the default configuration
chunks == 1
\* ValueSize<Dna>
Sigma == 4
\* number of values of the uint8_t counter taskNo of clear
TaskNoRange == 256
\* size in bits of the meta data
filterMetadataSize == 256

(***************************************************************************)
(* uint64_t arithmetic on 8 little-endian bytes.                           *)
(***************************************************************************)
Byte == 256
NBytes == 8

Min(S) == CHOOSE x \in S : \A y \in S : x <= y

RECURSIVE Pow(_, _)
Pow(b, e) == IF e = 0 THEN 1 ELSE b * Pow(b, e - 1)

\* a natural number below 2^31 as a uint64_t
RECURSIVE NatLimbs(_, _)
NatLimbs(n, j) ==
    IF j > NBytes THEN <<>> ELSE <<n % Byte>> \o NatLimbs(n \div Byte, j + 1)

ToU64(n) == NatLimbs(n, 1)

\* the limb at index j, zero beyond the top
Limb(a, j) == IF j \in 1..NBytes THEN a[j] ELSE 0

\* column sum of the schoolbook product for output limb j
RECURSIVE ColSum(_, _, _, _)
ColSum(a, b, j, i) ==
    IF i > j THEN 0 ELSE a[i] * b[j - i + 1] + ColSum(a, b, j, i + 1)

\* a * b mod 2^64
RECURSIVE MulLimbs(_, _, _, _)
MulLimbs(a, b, j, carry) ==
    IF j > NBytes THEN <<>>
    ELSE LET s == ColSum(a, b, j, 1) + carry
         IN  <<s % Byte>> \o MulLimbs(a, b, j + 1, s \div Byte)

Mul64(a, b) == MulLimbs(a, b, 1, 0)

\* a * n mod 2^64 for a natural n below 2^23 (one limb pass with carry)
RECURSIVE MulNatLimbs(_, _, _, _)
MulNatLimbs(a, n, j, carry) ==
    IF j > NBytes THEN <<>>
    ELSE LET s == a[j] * n + carry
         IN  <<s % Byte>> \o MulNatLimbs(a, n, j + 1, s \div Byte)

MulNat64(a, n) == MulNatLimbs(a, n, 1, 0)

\* x XOR y on naturals below 2^nbits
RECURSIVE XorNat(_, _, _)
XorNat(x, y, nbits) ==
    IF nbits = 0 THEN 0
    ELSE ((x + y) % 2) + 2 * XorNat(x \div 2, y \div 2, nbits - 1)

\* XOR of two 4-bit values, tabulated
XorNibble == [x \in 0..15 |-> [y \in 0..15 |-> XorNat(x, y, 4)]]

XorByte(x, y) ==
    XorNibble[x % 16][y % 16] + 16 * XorNibble[x \div 16][y \div 16]

Xor64(a, b) == [j \in 1..NBytes |-> XorByte(a[j], b[j])]

\* a >> s for 0 <= s < 64
Shr64(a, s) ==
    LET by == s \div 8
        lo == Pow(2, s % 8)
        hi == Pow(2, 8 - (s % 8))
    IN  [j \in 1..NBytes |->
            (Limb(a, j + by) \div lo) + (Limb(a, j + by + 1) % lo) * hi]

\* a % n for a natural n below 2^23
RECURSIVE ModFrom(_, _, _, _)
ModFrom(a, n, j, r) ==
    IF j = 0 THEN r ELSE ModFrom(a, n, j - 1, (r * Byte + a[j]) % n)

Mod64(a, n) == ModFrom(a, n, NBytes, 0)

(***************************************************************************)
(* Inputs.                                                                 *)
(***************************************************************************)
\* ranks of the symbols used in texts: two of the four Dna ranks
Symbols == {1, 3}

RECURSIVE SeqsOfLen(_)
SeqsOfLen(n) ==
    IF n = 0 THEN {<<>>}
    ELSE {Append(t, c) : t \in SeqsOfLen(n - 1), c \in Symbols}

Texts == UNION {SeqsOfLen(n) : n \in 0..MaxLen}

\* texts handed to insertKmer: two short ones and the texts of full length
\* that start with rank 3 and end with rank 1
InsertTexts ==
    {<<3>>, <<3, 1>>} \cup {t \in SeqsOfLen(MaxLen) : t[1] = 3 /\ t[MaxLen] = 1}

\* constructor arguments <<n_bins, n_hash_func, kmer_size, vec_size>>:
\* few bins; a full 64-bit column in a vector that is no multiple of the
\* block size; two columns, one hash function and two blocks
Configs == {<<3, 2, 2, 320>>, <<64, 2, 2, 200>>, <<65, 1, 3, 320>>}

(***************************************************************************)
(* Bitvector<Uncompressed>: the set of positions holding a 1.              *)
(***************************************************************************)
Bitvector(bins, bits) ==
    [bits |-> {}, noOfBits |-> bits,
     blockBitSize |-> ((bins + intSize - 1) \div intSize) * intSize]

set_pos(bv, pos) == [bv EXCEPT !.bits = @ \cup {pos}]

unset_pos(bv, pos) == [bv EXCEPT !.bits = @ \ {pos}]

\* the len-bit integer starting at idx, as the set of its set bit offsets
get_int(bv, idx, len) == {p - idx : p \in {q \in bv.bits : q >= idx /\ q < idx + len}}

\* every block grows to newBlockBitSize; bin i of block b stays bin i of block b
bv_resize(bv, bins, newNoOfBits, newBlockBitSize, newBinWidth) ==
    [bits |-> {(p \div bv.blockBitSize) * newBlockBitSize + (p % bv.blockBitSize)
                 : p \in bv.bits},
     noOfBits |-> newNoOfBits,
     blockBitSize |-> newBlockBitSize]

(***************************************************************************)
(* BDHash::getHash: the fingerprints of the k-mers of a text, rolled.      *)
(***************************************************************************)
RECURSIVE hashInit(_, _, _)
hashInit(text, k, j) ==
    IF j > k THEN 0 ELSE text[j] * Pow(Sigma, k - j) + hashInit(text, k, j + 1)

RECURSIVE hashRoll(_, _, _, _)
hashRoll(text, k, p, h) ==
    IF p + k > Len(text) THEN <<h>>
    ELSE <<h>> \o hashRoll(text, k, p + 1,
                           (h - text[p] * Pow(Sigma, k - 1)) * Sigma + text[p + k])

getHash(text, k) ==
    IF Len(text) < k THEN <<>> ELSE hashRoll(text, k, 1, hashInit(text, k, 1))

(***************************************************************************)
(* BinningDirectory<InterleavedBloomFilter>.                               *)
(***************************************************************************)
ceilDiv(a, b) == (a + b - 1) \div b

\* variant: the index i is not xor-ed into the multiplier
init_noIndex(f) ==
    LET bw  == ceilDiv(f.noOfBins, intSize)
        bbs == bw * intSize
    IN  [f EXCEPT
           !.chunkMap = <<0>>,
           !.binWidth = bw,
           !.blockBitSize = bbs,
           !.noOfBlocks = f.noOfBits \div bbs,
           !.preCalcValues =
               [i \in 1..f.noOfHashFunc |-> Mul64(ToU64(f.kmerSize), seedValue)],
           !.chunkOffset = f.noOfBits \div (chunks * bbs)]

init(f) ==
    LET bw  == ceilDiv(f.noOfBins, intSize)
        bbs == bw * intSize
    IN  [f EXCEPT
           !.chunkMap = <<0>>,
           !.binWidth = bw,
           !.blockBitSize = bbs,
           !.noOfBlocks = f.noOfBits \div bbs,
           !.preCalcValues =
               [i \in 1..f.noOfHashFunc |->
                   Xor64(ToU64(i - 1), Mul64(ToU64(f.kmerSize), seedValue))],
           !.chunkOffset = f.noOfBits \div (chunks * bbs)]

\* the members before the constructor body runs
Members(n_bins, n_hash_func, kmer_size, vec_size, bv) ==
    [chunkMapSet |-> FALSE, chunkMap |-> <<0>>, significantPositions |-> 0,
     significantBits |-> 0, effectiveChunks |-> 1, chunkOffset |-> 0,
     currentChunk |-> 0,
     noOfBins |-> n_bins, noOfHashFunc |-> n_hash_func, kmerSize |-> kmer_size,
     noOfBits |-> vec_size, noOfBlocks |-> 0, binWidth |-> 0, blockBitSize |-> 0,
     preCalcValues |-> <<>>, bitvector |-> bv]

BinningDirectory(n_bins, n_hash_func, kmer_size, vec_size) ==
    init(Members(n_bins, n_hash_func, kmer_size, vec_size,
                 Bitvector(n_bins, vec_size)))

\* variant: the xor-shift of the hash is left out
hashToIndex_noShift(hash, f) ==
    Mod64(hash, f.noOfBlocks) * f.blockBitSize

hashToIndex(hash, f) ==
    Mod64(Xor64(hash, Shr64(hash, shiftValue)), f.noOfBlocks) * f.blockBitSize

\* variant: every hash function uses the first multiplier
insertBit_firstSeed(f, kmerHash, binNo, i) ==
    LET vecIndex == hashToIndex(MulNat64(f.preCalcValues[1], kmerHash), f) + binNo
    IN  [f EXCEPT !.bitvector = set_pos(@, vecIndex)]

\* variant: binNo is not added to the block's base position
insertBit_noBin(f, kmerHash, binNo, i) ==
    LET vecIndex == hashToIndex(MulNat64(f.preCalcValues[i], kmerHash), f)
    IN  [f EXCEPT !.bitvector = set_pos(@, vecIndex)]

\* variant: the 64-bit word is assigned the bit's mask in place of being or-ed
insertBit_assignWord(f, kmerHash, binNo, i) ==
    LET vecIndex == hashToIndex(MulNat64(f.preCalcValues[i], kmerHash), f) + binNo
    IN  [f EXCEPT !.bitvector.bits =
            {p \in @ : p \div intSize # vecIndex \div intSize} \cup {vecIndex}]

\* variant: the bit of the bin after binNo is set
insertBit_nextBin(f, kmerHash, binNo, i) ==
    LET vecIndex == hashToIndex(MulNat64(f.preCalcValues[i], kmerHash), f) + binNo + 1
    IN  [f EXCEPT !.bitvector = set_pos(@, vecIndex)]

\* vecIndex = preCalcValues[i] * kmerHash; hashToIndex; += binNo; set_pos
insertBit(f, kmerHash, binNo, i) ==
    LET vecIndex == hashToIndex(MulNat64(f.preCalcValues[i], kmerHash), f) + binNo
    IN  [f EXCEPT !.bitvector = set_pos(@, vecIndex)]

\* the inner loop of insertKmer: one set_pos per hash function
RECURSIVE insertHash(_, _, _, _)
insertHash(f, kmerHash, binNo, i) ==
    IF i > f.noOfHashFunc THEN f
    ELSE insertHash(insertBit(f, kmerHash, binNo, i), kmerHash, binNo, i + 1)

RECURSIVE insertHashes(_, _, _, _)
insertHashes(f, kmerHashes, binNo, n) ==
    IF n > Len(kmerHashes) THEN f
    ELSE insertHashes(insertHash(f, kmerHashes[n], binNo, 1), kmerHashes, binNo, n + 1)

\* variant: the loop over the fingerprints runs at least once
insertKmer_atLeastOnce(f, text, binNo) ==
    LET kmerHashes == getHash(text, f.kmerSize)
    IN  insertHashes(f, IF kmerHashes = <<>> THEN <<0>> ELSE kmerHashes, binNo, 1)

\* variant: the shape is resized to kmerSize + 1
insertKmer_widerShape(f, text, binNo) ==
    insertHashes(f, getHash(text, f.kmerSize + 1), binNo, 1)

insertKmer(f, text, binNo) ==
    insertHashes(f, getHash(text, f.kmerSize), binNo, 1)

\* insertKmer(text, binNo, chunkNo): currentChunk = chunkNo; insertKmer(text, binNo)
insertKmerChunk(f, text, binNo, chunkNo) ==
    insertKmer([f EXCEPT !.currentChunk = chunkNo], text, binNo)

\* ++counts[b]; an index outside the vector is undefined behaviour
incCount(cs, b) ==
    IF b \in DOMAIN cs.v THEN [cs EXCEPT !.v[b] = @ + 1] ELSE [cs EXCEPT !.ub = TRUE]

\* variant: binNo is not moved past the bin just counted
RECURSIVE decodeLoop_noNext(_, _, _)
decodeLoop_noNext(tmp, binNo, cs) ==
    IF tmp = {} \/ cs.ub THEN cs
    ELSE LET lo   == Min(tmp)
             hit  == binNo + lo
             step == lo + 1
             rest == {x - step : x \in {y \in tmp : y >= step}}
             cs1  == IF step >= intSize THEN [cs EXCEPT !.ub = TRUE] ELSE cs
         IN  decodeLoop_noNext(rest, hit, incCount(cs1, hit))

\* while (tmp > 0): pop the lowest set bit; a shift by 64 or more is undefined,
\* and the loop is not followed beyond undefined behaviour
RECURSIVE decodeLoop(_, _, _)
decodeLoop(tmp, binNo, cs) ==
    IF tmp = {} \/ cs.ub THEN cs
    ELSE LET lo   == Min(tmp)
             hit  == binNo + lo
             step == lo + 1
             rest == {x - step : x \in {y \in tmp : y >= step}}
             cs1  == IF step >= intSize THEN [cs EXCEPT !.ub = TRUE] ELSE cs
         IN  decodeLoop(rest, hit + 1, incCount(cs1, hit))

\* variant: no special case for the word 1 << 63
decodeWord_noSpecial(tmp, binNo, cs) == decodeLoop(tmp, binNo, cs)

\* if (tmp ^ (1ULL << (intSize - 1))) ... else ++counts[binNo + intSize - 1]
decodeWord(tmp, binNo, cs) ==
    IF tmp # {intSize - 1} THEN decodeLoop(tmp, binNo, cs)
    ELSE incCount(cs, binNo + intSize - 1)

\* tmp = get_int(vecIndices[0]); tmp &= get_int(vecIndices[i]) for i >= 1
RECURSIVE andWords(_, _, _, _)
andWords(f, vecIndices, i, tmp) ==
    IF i > f.noOfHashFunc THEN tmp
    ELSE andWords(f, vecIndices, i + 1,
                  tmp \cap get_int(f.bitvector, vecIndices[i], intSize))

\* the loop over the batches (64-bit columns) of one block
RECURSIVE countBatches(_, _, _, _)
countBatches(f, vecIndices, batchNo, cs) ==
    IF batchNo >= f.binWidth THEN cs
    ELSE LET tmp == andWords(f, vecIndices, 2,
                             get_int(f.bitvector, vecIndices[1], intSize))
             oob == \E i \in 1..f.noOfHashFunc :
                        vecIndices[i] + intSize > f.bitvector.noOfBits
             cs1 == IF oob THEN [cs EXCEPT !.ub = TRUE] ELSE cs
         IN  countBatches(f, [i \in DOMAIN vecIndices |-> vecIndices[i] + intSize],
                          batchNo + 1, decodeWord(tmp, batchNo * intSize, cs1))

\* hash %= noOfBlocks with noOfBlocks = 0 is a division by zero
countHash(f, kmerHash, cs) ==
    IF f.noOfBlocks = 0 THEN [cs EXCEPT !.ub = TRUE]
    ELSE countBatches(f,
                      [i \in 1..f.noOfHashFunc |->
                          hashToIndex(MulNat64(f.preCalcValues[i], kmerHash), f)],
                      0, cs)

RECURSIVE countHashes(_, _, _, _)
countHashes(f, kmerHashes, n, cs) ==
    IF n > Len(kmerHashes) THEN cs
    ELSE countHashes(f, kmerHashes, n + 1, countHash(f, kmerHashes[n], cs))

\* count(counts, text): counts is the caller's vector, ub records undefined behaviour
count(f, counts, text) ==
    countHashes(f, getHash(text, f.kmerSize), 1, [v |-> counts, ub |-> FALSE])

Zeros(n) == [b \in 0..(n - 1) |-> 0]

select(f, selected, text, threshold) ==
    LET cs == count(f, Zeros(f.noOfBins), text)
    IN  [v  |-> [binNo \in DOMAIN selected |->
                    IF binNo < f.noOfBins /\ cs.v[binNo] >= threshold
                    THEN TRUE ELSE selected[binNo]],
         ub |-> cs.ub \/ \E binNo \in 0..(f.noOfBins - 1) : binNo \notin DOMAIN selected]

\* the blocks worker taskNo of clear walks over
clearStripe(f, taskNo, batchSize) ==
    {hashBlock \in 0..(f.noOfBlocks - 1) :
        /\ hashBlock >= taskNo * batchSize
        /\ hashBlock < (taskNo + 1) * batchSize}

\* the body of one worker: unset_pos(vecPos + binNo) for its blocks and all bins
clearTask(f, bins, taskNo, batchSize) ==
    [f EXCEPT !.bitvector.bits =
        @ \ {hashBlock * f.bitvector.blockBitSize + binNo :
                hashBlock \in clearStripe(f, taskNo, batchSize), binNo \in bins}]

RECURSIVE clearTasks(_, _, _, _, _)
clearTasks(f, bins, threads, taskNo, batchSize) ==
    IF taskNo >= threads THEN f
    ELSE clearTasks(clearTask(f, bins, taskNo, batchSize), bins, threads,
                    taskNo + 1, batchSize)

\* variant: the batch size is not rounded up
clearBatchSize_floor(f, threads) == f.noOfBlocks \div threads

clearBatchSize(f, threads) ==
    LET batchSize == f.noOfBlocks \div threads
    IN  IF batchSize * threads < f.noOfBlocks THEN batchSize + 1 ELSE batchSize

\* clear(bins, threads) for threads below 256 (taskNo is a uint8_t)
clear(f, bins, threads) ==
    clearTasks(f, bins, threads, 0, clearBatchSize(f, threads))

\* variant: the geometry is recomputed by init() from the old noOfBits
resizeBins_reinit(f, bins) ==
    LET newBinWidth     == ceilDiv(bins, intSize)
        newBlockBitSize == newBinWidth * intSize
    IN  init([f EXCEPT
                !.bitvector = bv_resize(@, bins, f.noOfBlocks * newBlockBitSize,
                                        newBlockBitSize, newBinWidth),
                !.noOfBins = bins])

\* variant: binWidth keeps the old number of columns
resizeBins_keepBinWidth(f, bins) ==
    LET newBinWidth     == ceilDiv(bins, intSize)
        newBlockBitSize == newBinWidth * intSize
        newNoOfBits     == f.noOfBlocks * newBlockBitSize
    IN  [f EXCEPT
           !.bitvector = bv_resize(@, bins, newNoOfBits, newBlockBitSize, newBinWidth),
           !.noOfBins = bins,
           !.blockBitSize = newBlockBitSize,
           !.noOfBits = newNoOfBits]

\* variant: noOfBits keeps the size the vector had before the resize
resizeBins_keepNoOfBits(f, bins) ==
    LET newBinWidth     == ceilDiv(bins, intSize)
        newBlockBitSize == newBinWidth * intSize
        newNoOfBits     == f.noOfBlocks * newBlockBitSize
    IN  [f EXCEPT
           !.bitvector = bv_resize(@, bins, newNoOfBits, newBlockBitSize, newBinWidth),
           !.noOfBins = bins,
           !.binWidth = newBinWidth,
           !.blockBitSize = newBlockBitSize]

resizeBins(f, bins) ==
    LET newBinWidth     == ceilDiv(bins, intSize)
        newBlockBitSize == newBinWidth * intSize
        newNoOfBits     == f.noOfBlocks * newBlockBitSize
    IN  [f EXCEPT
           !.bitvector = bv_resize(@, bins, newNoOfBits, newBlockBitSize, newBinWidth),
           !.noOfBins = bins,
           !.binWidth = newBinWidth,
           !.blockBitSize = newBlockBitSize,
           !.noOfBits = newNoOfBits]

(***************************************************************************)
(* Persistence: the stored bit vector and its four metadata words.         *)
(***************************************************************************)
NoFile == [present |-> FALSE]

saveToFile(f) ==
    [present |-> TRUE,
     bits |-> f.bitvector.bits,
     noOfBins |-> f.noOfBins, noOfHashFunc |-> f.noOfHashFunc,
     kmerSize |-> f.kmerSize, noOfBits |-> f.noOfBits]

\* Bitvector(fileName)
BitvectorFromFile(fl) ==
    [bits |-> fl.bits, noOfBits |-> fl.noOfBits,
     blockBitSize |-> ceilDiv(fl.noOfBins, intSize) * intSize]

\* variant: the constructor does not call init()
BinningDirectoryFromFile_noInit(fl) ==
    Members(fl.noOfBins, fl.noOfHashFunc, fl.kmerSize, fl.noOfBits,
            BitvectorFromFile(fl))

\* BinningDirectory(fileName): bitvector(fileName), getMetadata, init
BinningDirectoryFromFile(fl) ==
    init(Members(fl.noOfBins, fl.noOfHashFunc, fl.kmerSize, fl.noOfBits,
                 BitvectorFromFile(fl)))

(***************************************************************************)
(* State.                                                                  *)
(*   ibf       the filter                                                  *)
(*   pre       the filter as it was when the last call started             *)
(*   op        the last call: its name, arguments and outputs              *)
(*   inserted  <<text, binNo>> of the insertKmer calls whose bin has not   *)
(*             been cleared since                                          *)
(*   file      the file written by the last saveToFile                     *)
(*   saved     the filter, and its inserted, as they were when file was    *)
(*             written; a filter loaded from file starts from them         *)
(*   nOps      number of member calls made so far                          *)
(*   calls     the insertKmer calls running in concurrent threads: for     *)
(*             each thread its arguments and its position in the two loops *)
(*   clr       the clear call that is running: its arguments, the task     *)
(*             loop's counter, the tasks spawned, finished and joined      *)
(*   sem       the Semaphore of the indexer: its count and each thread's   *)
(*             position in wait() and notify()                             *)
(*   indexer   the indexer's main: the task loop, its tasks, the bins      *)
(*             indexed and whether the filter was saved                    *)
(***************************************************************************)
\* no clear call is running
NoClear == [pc |-> "idle"]

\* no Semaphore has been constructed
NoSem == [count |-> 0]

\* the indexer's main is not running
NoIndexer == [pc |-> "idle"]

VARIABLES ibf, pre, op, inserted, file, saved, nOps, calls, clr, sem, indexer

vars == <<ibf, pre, op, inserted, file, saved, nOps, calls, clr, sem, indexer>>

\* bins handed to insertKmer and clear: the first and the last bin
EdgeBins(f) == {0, f.noOfBins - 1}

\* bin counts handed to resizeBins: one more bin, and the first count that
\* needs a second 64-bit column
ResizeTargets(f) == {n \in {f.noOfBins + 1, intSize + 1} : n > f.noOfBins}

Init ==
    /\ \E c \in Configs : ibf = BinningDirectory(c[1], c[2], c[3], c[4])
    /\ pre = ibf
    /\ op = [name |-> "new"]
    /\ inserted = {}
    /\ file = NoFile
    /\ saved = [f |-> ibf, inserted |-> {}]
    /\ nOps = 0
    /\ calls = <<>>
    /\ clr = NoClear
    /\ sem = NoSem
    /\ indexer = NoIndexer

InsertKmer(text, binNo) ==
    /\ nOps < MaxOps
    /\ binNo < ibf.noOfBins
    /\ ibf' = insertKmer(ibf, text, binNo)
    /\ pre' = ibf
    /\ op' = [name |-> "insertKmer", text |-> text, binNo |-> binNo]
    /\ inserted' = inserted \cup {<<text, binNo>>}
    /\ nOps' = nOps + 1
    /\ UNCHANGED <<file, saved, calls, clr, sem, indexer>>

\* variant: vecIndices is a reference to preCalcValues, not a copy of it
Count_aliasPreCalc(text, counts) ==
    LET hs == getHash(text, ibf.kmerSize)
    IN  /\ nOps < MaxOps
        /\ op' = [name |-> "count", text |-> text, counts |-> counts,
                  out |-> count(ibf, counts, text)]
        /\ ibf' = IF hs = <<>> THEN ibf
                  ELSE [ibf EXCEPT !.preCalcValues =
                           [i \in 1..ibf.noOfHashFunc |-> MulNat64(@[i], hs[Len(hs)])]]
        /\ pre' = ibf
        /\ nOps' = nOps + 1
        /\ UNCHANGED <<inserted, file, saved, calls, clr, sem, indexer>>

Count(text, counts) ==
    /\ nOps < MaxOps
    /\ op' = [name |-> "count", text |-> text, counts |-> counts,
              out |-> count(ibf, counts, text)]
    /\ pre' = ibf
    /\ nOps' = nOps + 1
    /\ UNCHANGED <<ibf, inserted, file, saved, calls, clr, sem, indexer>>

Select(text, threshold, selected) ==
    /\ nOps < MaxOps
    /\ op' = [name |-> "select", text |-> text, threshold |-> threshold,
              selected |-> selected, out |-> select(ibf, selected, text, threshold)]
    /\ pre' = ibf
    /\ nOps' = nOps + 1
    /\ UNCHANGED <<ibf, inserted, file, saved, calls, clr, sem, indexer>>

Clear(bins, threads) ==
    /\ nOps < MaxOps
    /\ ibf' = clear(ibf, bins, threads)
    /\ pre' = ibf
    /\ op' = [name |-> "clear", bins |-> bins, threads |-> threads]
    /\ inserted' = {c \in inserted : c[2] \notin bins}
    /\ nOps' = nOps + 1
    /\ UNCHANGED <<file, saved, calls, clr, sem, indexer>>

ResizeBins(bins) ==
    /\ nOps < MaxOps
    /\ ibf' = resizeBins(ibf, bins)
    /\ pre' = ibf
    /\ op' = [name |-> "resizeBins", bins |-> bins]
    /\ nOps' = nOps + 1
    /\ UNCHANGED <<inserted, file, saved, calls, clr, sem, indexer>>

SaveToFile ==
    /\ nOps < MaxOps
    /\ file' = saveToFile(ibf)
    /\ saved' = [f |-> ibf, inserted |-> inserted]
    /\ pre' = ibf
    /\ op' = [name |-> "saveToFile"]
    /\ nOps' = nOps + 1
    /\ UNCHANGED <<ibf, inserted, calls, clr, sem, indexer>>

LoadFromFile ==
    /\ file.present
    /\ ibf' = BinningDirectoryFromFile(file)
    /\ pre' = ibf
    /\ op' = [name |-> "loadFromFile"]
    /\ inserted' = saved.inserted
    /\ UNCHANGED <<file, saved, nOps, calls, clr, sem, indexer>>

Next ==
    \/ \E text \in InsertTexts, binNo \in EdgeBins(ibf) : InsertKmer(text, binNo)
    \/ \E text \in Texts, c \in {0, 1} :
          Count(text, [b \in 0..(ibf.noOfBins - 1) |-> c])
    \/ \E text \in Texts, threshold \in {1, 2}, s \in BOOLEAN :
          Select(text, threshold, [b \in 0..(ibf.noOfBins - 1) |-> s])
    \/ \E bins \in (SUBSET EdgeBins(ibf)) \ {{}}, threads \in 1..MaxThreads :
          Clear(bins, threads)
    \/ \E bins \in ResizeTargets(ibf) : ResizeBins(bins)
    \/ SaveToFile
    \/ LoadFromFile

Spec == Init /\ [][Next]_vars

(***************************************************************************)
(* Concurrent insertKmer calls.  Every thread runs the two loops of        *)
(* insertKmer on the shared filter; one step is one iteration of the inner *)
(* loop, ending in the atomic set_pos.                                     *)
(***************************************************************************)
Threads == 1..NThreads

CallHashes(c) == getHash(c.text, ibf.kmerSize)

Finished(c) == c.n > Len(CallHashes(c))

InitIns ==
    /\ \E c \in Configs : ibf = BinningDirectory(c[1], c[2], c[3], c[4])
    /\ pre = ibf
    /\ op = [name |-> "new"]
    /\ inserted = {}
    /\ file = NoFile
    /\ saved = [f |-> ibf, inserted |-> {}]
    /\ nOps = 0
    /\ \E texts \in [Threads -> InsertTexts], binNos \in [Threads -> EdgeBins(ibf)] :
          calls = [t \in Threads |->
                      [text |-> texts[t], binNo |-> binNos[t], n |-> 1, i |-> 1]]
    /\ clr = NoClear
    /\ sem = NoSem
    /\ indexer = NoIndexer

InsertStep(t) ==
    LET c    == calls[t]
        last == c.i = ibf.noOfHashFunc
        c1   == [c EXCEPT !.n = IF last THEN @ + 1 ELSE @,
                          !.i = IF last THEN 1 ELSE @ + 1]
    IN  /\ ~Finished(c)
        /\ ibf' = insertBit(ibf, CallHashes(c)[c.n], c.binNo, c.i)
        /\ calls' = [calls EXCEPT ![t] = c1]
        /\ op' = [name |-> "insertStep", thread |-> t]
        /\ inserted' = IF c1.n > Len(CallHashes(c))
                       THEN inserted \cup {<<c.text, c.binNo>>} ELSE inserted
        /\ UNCHANGED <<pre, file, saved, nOps, clr, sem, indexer>>

NextIns == \E t \in Threads : InsertStep(t)

SpecIns == InitIns /\ [][NextIns]_vars

(***************************************************************************)
(* Calls at the edges of the interface: constructor arguments that leave   *)
(* no block or exceed the k-mer size of one 64-bit fingerprint, the        *)
(* chunked insertKmer, and resizeBins to fewer bins.                       *)
(***************************************************************************)
\* a usual filter; a vector shorter than one block; a k-mer size above 32
EdgeConfigs == {<<3, 2, 2, 320>>, <<3, 2, 2, 32>>, <<3, 2, 33, 320>>}

\* chunk numbers handed to the chunked insertKmer
ChunkNos == {0, 1}

\* bin counts below the current one that keep the number of 64-bit columns
ShrinkTargets(f) == {n \in {f.noOfBins - 1} : n >= 1}

\* the chunk fields an external builder of a two-chunk index writes
BuilderChunkMaps == {<<1, 0>>}

\* copy assignment: the copied members, then init()
operatorCopyAssign(this, other) ==
    init([this EXCEPT
            !.noOfBins = other.noOfBins,
            !.noOfHashFunc = other.noOfHashFunc,
            !.kmerSize = other.kmerSize,
            !.noOfBits = other.noOfBits,
            !.bitvector = other.bitvector,
            !.chunkMap = other.chunkMap,
            !.significantPositions = other.significantPositions,
            !.significantBits = other.significantBits,
            !.effectiveChunks = other.effectiveChunks,
            !.chunkOffset = other.chunkOffset,
            !.chunkMapSet = other.chunkMapSet])

\* move assignment: the moved members, then init()
operatorMoveAssign(this, other) ==
    init([this EXCEPT
            !.noOfBins = other.noOfBins,
            !.noOfHashFunc = other.noOfHashFunc,
            !.kmerSize = other.kmerSize,
            !.noOfBits = other.noOfBits,
            !.bitvector = other.bitvector,
            !.chunkMap = other.chunkMap,
            !.significantPositions = other.significantPositions,
            !.significantBits = other.significantBits,
            !.effectiveChunks = other.effectiveChunks,
            !.chunkOffset = other.chunkOffset,
            !.chunkMapSet = other.chunkMapSet])

\* the object a copy or move constructor assigns to
NewObject == Members(0, 0, 0, 0, Bitvector(0, 0))

\* hashToIndex divides by noOfBlocks for every fingerprint of the text
dividesByZero(f, text) == f.noOfBlocks = 0 /\ getHash(text, f.kmerSize) # <<>>

InitEdge ==
    /\ \E c \in EdgeConfigs : ibf = BinningDirectory(c[1], c[2], c[3], c[4])
    /\ pre = ibf
    /\ op = [name |-> "new"]
    /\ inserted = {}
    /\ file = NoFile
    /\ saved = [f |-> ibf, inserted |-> {}]
    /\ nOps = 0
    /\ calls = <<>>
    /\ clr = NoClear
    /\ sem = NoSem
    /\ indexer = NoIndexer

\* a division by zero ends the call after currentChunk was written
InsertKmerChunk(text, binNo, chunkNo) ==
    /\ nOps < MaxOps
    /\ binNo < ibf.noOfBins
    /\ ibf' = IF dividesByZero(ibf, text) THEN [ibf EXCEPT !.currentChunk = chunkNo]
              ELSE insertKmerChunk(ibf, text, binNo, chunkNo)
    /\ pre' = ibf
    /\ op' = [name |-> "insertKmerChunk", text |-> text, binNo |-> binNo,
              chunkNo |-> chunkNo, ub |-> dividesByZero(ibf, text)]
    /\ inserted' = IF dividesByZero(ibf, text) THEN inserted
                   ELSE inserted \cup {<<text, binNo>>}
    /\ nOps' = nOps + 1
    /\ UNCHANGED <<file, saved, calls, clr, sem, indexer>>

\* an external builder writes the public chunk members
SetChunkMap(map) ==
    /\ nOps < MaxOps
    /\ ~ibf.chunkMapSet
    /\ ibf' = [ibf EXCEPT !.chunkMap = map, !.chunkMapSet = TRUE,
                          !.significantBits = 1, !.effectiveChunks = Len(map)]
    /\ pre' = ibf
    /\ op' = [name |-> "setChunkMap", map |-> map]
    /\ nOps' = nOps + 1
    /\ UNCHANGED <<inserted, file, saved, calls, clr, sem, indexer>>

\* BinningDirectory a(b): the filter goes on as the copy
CopyAssign ==
    /\ nOps < MaxOps
    /\ ibf' = operatorCopyAssign(NewObject, ibf)
    /\ pre' = ibf
    /\ op' = [name |-> "copyAssign"]
    /\ nOps' = nOps + 1
    /\ UNCHANGED <<inserted, file, saved, calls, clr, sem, indexer>>

\* BinningDirectory a(std::move(b)): the filter goes on as the moved-to object
MoveAssign ==
    /\ nOps < MaxOps
    /\ ibf' = operatorMoveAssign(NewObject, ibf)
    /\ pre' = ibf
    /\ op' = [name |-> "moveAssign"]
    /\ nOps' = nOps + 1
    /\ UNCHANGED <<inserted, file, saved, calls, clr, sem, indexer>>

NextEdge ==
    \/ \E text \in InsertTexts, binNo \in EdgeBins(ibf), chunkNo \in ChunkNos :
          InsertKmerChunk(text, binNo, chunkNo)
    \/ \E text \in InsertTexts : Count(text, Zeros(ibf.noOfBins))
    \/ \E text \in InsertTexts :
          Select(text, 1, [b \in 0..(ibf.noOfBins - 1) |-> FALSE])
    \/ \E bins \in ShrinkTargets(ibf) \cup {ibf.noOfBins + 1} : ResizeBins(bins)
    \/ \E map \in BuilderChunkMaps : SetChunkMap(map)
    \/ CopyAssign
    \/ MoveAssign

SpecEdge == InitEdge /\ [][NextEdge]_vars

(***************************************************************************)
(* clear(bins, threads) step by step: the task loop spawns one worker per  *)
(* iteration, every worker clears its stripe at some time after it was     *)
(* spawned, and the call returns when every task was joined.  A worker is  *)
(* the value of taskNo it captured.  With more than MaxThreads tasks the   *)
(* workers are followed in the order they were spawned.                    *)
(***************************************************************************)
\* two blocks of two columns, and five blocks of one column
ClearConfigs == {<<65, 1, 3, 320>>, <<3, 2, 2, 320>>}

\* thread counts handed to clear: the small ones and the first that the
\* uint8_t counter cannot reach
ClearThreads == (1..MaxThreads) \cup {TaskNoRange}

\* the filter of configuration c with one text in its first and last bin
Filled(c) ==
    LET f == BinningDirectory(c[1], c[2], c[3], c[4])
    IN  insertKmer(insertKmer(f, <<3, 1, 1>>, 0), <<3, 3, 1>>, f.noOfBins - 1)

InitClear ==
    /\ \E c \in ClearConfigs : ibf = Filled(c)
    /\ pre = ibf
    /\ op = [name |-> "new"]
    /\ inserted = {<<<<3, 1, 1>>, 0>>, <<<<3, 3, 1>>, ibf.noOfBins - 1>>}
    /\ file = NoFile
    /\ saved = [f |-> ibf, inserted |-> inserted]
    /\ nOps = 0
    /\ calls = <<>>
    /\ clr = NoClear
    /\ sem = NoSem
    /\ indexer = NoIndexer

\* clear is entered: batchSize is computed, taskNo = 0
ClearStart(bins, threads) ==
    /\ clr.pc = "idle"
    /\ nOps < MaxOps
    /\ clr' = [pc |-> "spawn", bins |-> bins, threads |-> threads,
               batchSize |-> clearBatchSize(ibf, threads),
               taskNo |-> 0, tasks |-> <<>>, done |-> {}, joined |-> 0]
    /\ pre' = ibf
    /\ op' = [name |-> "clear", bins |-> bins, threads |-> threads]
    /\ nOps' = nOps + 1
    /\ UNCHANGED <<ibf, inserted, file, saved, calls, sem, indexer>>

\* one iteration of the task loop: taskNo < threads, emplace_back, ++taskNo
ClearSpawn ==
    /\ clr.pc = "spawn"
    /\ clr.taskNo < clr.threads
    /\ Len(clr.tasks) < MaxTasks
    /\ clr' = [clr EXCEPT !.tasks = Append(@, clr.taskNo),
                          !.taskNo = (@ + 1) % TaskNoRange]
    /\ UNCHANGED <<ibf, pre, op, inserted, file, saved, nOps, calls, sem, indexer>>

\* the task loop ends
ClearLoopEnd ==
    /\ clr.pc = "spawn"
    /\ ~(clr.taskNo < clr.threads)
    /\ clr' = [clr EXCEPT !.pc = "join"]
    /\ UNCHANGED <<ibf, pre, op, inserted, file, saved, nOps, calls, sem, indexer>>

\* the k-th task spawned runs its worker
ClearWorker(k) ==
    /\ clr.pc # "idle"
    /\ k \in 1..Len(clr.tasks)
    /\ k \notin clr.done
    /\ clr.threads <= MaxThreads \/ \A j \in 1..(k - 1) : j \in clr.done
    /\ ibf' = clearTask(ibf, clr.bins, clr.tasks[k], clr.batchSize)
    /\ clr' = [clr EXCEPT !.done = @ \cup {k}]
    /\ inserted' = {c \in inserted : c[2] \notin clr.bins}
    /\ UNCHANGED <<pre, op, file, saved, nOps, calls, sem, indexer>>

\* variant: task.get() of the next task returns without waiting for its worker
ClearJoin_noWait ==
    /\ clr.pc = "join"
    /\ clr.joined < Len(clr.tasks)
    /\ clr' = [clr EXCEPT !.joined = @ + 1]
    /\ UNCHANGED <<ibf, pre, op, inserted, file, saved, nOps, calls, sem, indexer>>

\* task.get() of the next task returns once its worker has finished
ClearJoin ==
    /\ clr.pc = "join"
    /\ clr.joined < Len(clr.tasks)
    /\ (clr.joined + 1) \in clr.done
    /\ clr' = [clr EXCEPT !.joined = @ + 1]
    /\ UNCHANGED <<ibf, pre, op, inserted, file, saved, nOps, calls, sem, indexer>>

\* clear returns
ClearReturn ==
    /\ clr.pc = "join"
    /\ clr.joined = Len(clr.tasks)
    /\ clr' = [clr EXCEPT !.pc = "returned"]
    /\ UNCHANGED <<ibf, pre, op, inserted, file, saved, nOps, calls, sem, indexer>>

NextClear ==
    \/ \E bins \in (SUBSET EdgeBins(ibf)) \ {{}}, threads \in ClearThreads :
          ClearStart(bins, threads)
    \/ ClearSpawn
    \/ ClearLoopEnd
    \/ \E k \in 1..MaxTasks : ClearWorker(k)
    \/ ClearJoin
    \/ ClearReturn

SpecClear == InitClear /\ [][NextClear]_vars

(***************************************************************************)
(* The decoding of one and-ed 64-bit word in count, on its own: the word   *)
(* tmp of column batchNo is decoded into a zeroed counts vector of two     *)
(* columns.                                                                *)
(***************************************************************************)
\* the words decoded: every combination of the lowest, middle and highest
\* bits, and the word of all ones
DecodeWords == (SUBSET {0, 1, 2, 31, 32, 62, 63}) \cup {0..(intSize - 1)}

DecodeColumns == {0, 1}

InitDecode ==
    /\ ibf = BinningDirectory(2 * intSize, 1, 2, 2 * intSize)
    /\ pre = ibf
    /\ \E tmp \in DecodeWords, batchNo \in DecodeColumns :
          op = [name |-> "word", tmp |-> tmp, batchNo |-> batchNo]
    /\ inserted = {}
    /\ file = NoFile
    /\ saved = [f |-> ibf, inserted |-> {}]
    /\ nOps = 0
    /\ calls = <<>>
    /\ clr = NoClear
    /\ sem = NoSem
    /\ indexer = NoIndexer

\* binNo = batchNo * intSize, then the decoding of tmp
DecodeWord ==
    /\ op.name = "word"
    /\ op' = [name |-> "decode", tmp |-> op.tmp, batchNo |-> op.batchNo,
              out |-> decodeWord(op.tmp, op.batchNo * intSize,
                                 [v |-> Zeros(ibf.noOfBins), ub |-> FALSE])]
    /\ UNCHANGED <<ibf, pre, inserted, file, saved, nOps, calls, clr, sem, indexer>>

NextDecode == DecodeWord

SpecDecode == InitDecode /\ [][NextDecode]_vars

(***************************************************************************)
(* The Semaphore of the indexer, shared by NWaiters threads that each go   *)
(* through MaxSections critical sections: wait() in the constructor of     *)
(* Critical_section, notify() in its destructor.  The bodies of wait() and *)
(* notify() run under the mutex m, so a step is one stretch of a body      *)
(* between taking m and giving it up: wait() up to its return or up to     *)
(* blocking on cv, the rest of wait() after a wake-up, and notify().       *)
(***************************************************************************)
Waiters == 1..NWaiters

\* the values of n the Semaphore is constructed with
SemCounts == {1, 2}

\* Semaphore(int n) : count{n}
Semaphore(n) == [n |-> n, count |-> n]

\* the predicate wait() hands to cv.wait
countNonZero(s) == s.count # 0

\* threads blocked in cv.wait
Blocked == {t \in Waiters : sem.pc[t] = "blocked"}

\* threads that returned from wait() and have not called notify()
Holders == {t \in Waiters : sem.pc[t] = "holding"}

InitSem ==
    /\ ibf = BinningDirectory(intSize, 1, 2, intSize)
    /\ pre = ibf
    /\ op = [name |-> "new"]
    /\ inserted = {}
    /\ file = NoFile
    /\ saved = [f |-> ibf, inserted |-> {}]
    /\ nOps = 0
    /\ calls = <<>>
    /\ clr = NoClear
    /\ indexer = NoIndexer
    /\ \E n \in SemCounts :
          sem = [n |-> n, count |-> Semaphore(n).count,
                 pc |-> [t \in Waiters |-> "outside"],
                 sections |-> [t \in Waiters |-> 0],
                 blockedOnce |-> {}]

\* the count and the thread's position after cv.wait(l, pred) looked at the
\* predicate: --count and return, or block on cv
waitCheck(s, t) ==
    IF countNonZero(s)
    THEN [s EXCEPT !.count = @ - 1, !.pc[t] = "holding"]
    ELSE [s EXCEPT !.pc[t] = "blocked", !.blockedOnce = @ \cup {t}]

\* wait(): the thread takes m and looks at the predicate
SemWait(t) ==
    /\ sem.pc[t] = "outside"
    /\ sem.sections[t] < MaxSections
    /\ sem' = waitCheck(sem, t)
    /\ UNCHANGED <<ibf, pre, op, inserted, file, saved, nOps, calls, clr, indexer>>

\* a woken thread takes m again and looks at the predicate again
SemWake(t) ==
    /\ sem.pc[t] = "woken"
    /\ sem' = waitCheck(sem, t)
    /\ UNCHANGED <<ibf, pre, op, inserted, file, saved, nOps, calls, clr, indexer>>

\* condition_variable::wait may return without a notification
SemSpurious(t) ==
    /\ sem.pc[t] = "blocked"
    /\ sem' = [sem EXCEPT !.pc[t] = "woken"]
    /\ UNCHANGED <<ibf, pre, op, inserted, file, saved, nOps, calls, clr, indexer>>

\* notify() without cv.notify_one()
SemNotify_noWake(t) ==
    /\ sem.pc[t] = "holding"
    /\ sem' = [sem EXCEPT !.count = @ + 1,
                          !.pc[t] = "outside",
                          !.sections[t] = @ + 1]
    /\ UNCHANGED <<ibf, pre, op, inserted, file, saved, nOps, calls, clr, indexer>>

\* notify(): ++count, then cv.notify_one() wakes one of the blocked threads
SemNotify(t) ==
    /\ sem.pc[t] = "holding"
    /\ \E w \in (IF Blocked = {} THEN {0} ELSE Blocked) :
          sem' = [sem EXCEPT !.count = @ + 1,
                             !.pc = [u \in Waiters |->
                                        IF u = t THEN "outside"
                                        ELSE IF u = w THEN "woken"
                                        ELSE @[u]],
                             !.sections[t] = @ + 1]
    /\ UNCHANGED <<ibf, pre, op, inserted, file, saved, nOps, calls, clr, indexer>>

NextSem ==
    \E t \in Waiters :
        \/ SemWait(t)
        \/ SemWake(t)
        \/ SemSpurious(t)
        \/ SemNotify(t)

SpecSem == InitSem /\ [][NextSem]_vars

\* every thread that can run gets to run, and every critical section ends;
\* a wake-up without a notification is never owed
SpecSemFair ==
    /\ SpecSem
    /\ \A t \in Waiters :
          /\ WF_vars(SemWait(t))
          /\ WF_vars(SemWake(t))
          /\ WF_vars(SemNotify(t))

(***************************************************************************)
(* The task fan-out in the indexer's main: a loop spawns one task for      *)
(* every eight bins, each task runs runYaraIndexer on its bins, main gets  *)
(* every task's future in turn and then saves the filter.  taskNo and      *)
(* binNo are uint8_t.  Up to MaxThreads tasks run in any interleaving;     *)
(* more run one after the other in the order they were spawned, as the     *)
(* deferred launch policy runs them.                                       *)
(***************************************************************************)
\* values of --number-of-bins, within the range the parser accepts
IndexerBins == {1, 8, 10, 24, 256}

\* bins of one task
binsPerTask == 8

\* the loop's bound: options.numberOfBins/8
noOfTasks(numberOfBins) == numberOfBins \div binsPerTask

\* uint8_t binNo < taskNo*8 + 8, compared as int
binLoopGoesOn(task) == task.binNo < task.taskNo * binsPerTask + binsPerTask

Tasks == 1..Len(indexer.tasks)

InitIndexer ==
    /\ ibf = BinningDirectory(intSize, 1, 2, intSize)
    /\ pre = ibf
    /\ op = [name |-> "new"]
    /\ inserted = {}
    /\ file = NoFile
    /\ saved = [f |-> ibf, inserted |-> {}]
    /\ nOps = 0
    /\ calls = <<>>
    /\ clr = NoClear
    /\ sem = NoSem
    /\ \E numberOfBins \in IndexerBins :
          indexer = [pc |-> "spawn",
                     numberOfBins |-> numberOfBins,
                     taskNo |-> 0,
                     tasks |-> <<>>,
                     got |-> 0,
                     indexed |-> [b \in 0..(TaskNoRange - 1) |-> 0]]

\* tasks.emplace_back(std::async(...)); ++taskNo
IndexerSpawn ==
    /\ indexer.pc = "spawn"
    /\ indexer.taskNo < noOfTasks(indexer.numberOfBins)
    /\ indexer' = [indexer EXCEPT
          !.tasks = Append(@, [taskNo |-> indexer.taskNo,
                               binNo |-> (indexer.taskNo * binsPerTask) % TaskNoRange,
                               done |-> FALSE]),
          !.taskNo = (@ + 1) % TaskNoRange]
    /\ UNCHANGED <<ibf, pre, op, inserted, file, saved, nOps, calls, clr, sem>>

\* the spawning loop ends
IndexerLoopEnd ==
    /\ indexer.pc = "spawn"
    /\ ~(indexer.taskNo < noOfTasks(indexer.numberOfBins))
    /\ indexer' = [indexer EXCEPT !.pc = "get"]
    /\ UNCHANGED <<ibf, pre, op, inserted, file, saved, nOps, calls, clr, sem>>

\* task k may run
Runs(k) ==
    /\ k \in Tasks
    /\ ~indexer.tasks[k].done
    /\ noOfTasks(indexer.numberOfBins) > MaxThreads =>
          \A j \in 1..(k - 1) : indexer.tasks[j].done

\* one turn of a task's loop: runYaraIndexer(options, bf, binNo); ++binNo
RunYaraIndexer(k) ==
    /\ Runs(k)
    /\ binLoopGoesOn(indexer.tasks[k])
    /\ indexer.indexed[indexer.tasks[k].binNo] < MaxVisits
    /\ indexer' = [indexer EXCEPT
          !.indexed[indexer.tasks[k].binNo] = @ + 1,
          !.tasks[k].binNo = (@ + 1) % TaskNoRange]
    /\ UNCHANGED <<ibf, pre, op, inserted, file, saved, nOps, calls, clr, sem>>

\* a task's loop ends
TaskEnd(k) ==
    /\ Runs(k)
    /\ ~binLoopGoesOn(indexer.tasks[k])
    /\ indexer' = [indexer EXCEPT !.tasks[k].done = TRUE]
    /\ UNCHANGED <<ibf, pre, op, inserted, file, saved, nOps, calls, clr, sem>>

\* task.get() returns once the task has ended
IndexerGet ==
    /\ indexer.pc = "get"
    /\ indexer.got < Len(indexer.tasks)
    /\ indexer.tasks[indexer.got + 1].done
    /\ indexer' = [indexer EXCEPT !.got = @ + 1]
    /\ UNCHANGED <<ibf, pre, op, inserted, file, saved, nOps, calls, clr, sem>>

\* bf.save(filter_file)
IndexerSave ==
    /\ indexer.pc = "get"
    /\ indexer.got = Len(indexer.tasks)
    /\ indexer' = [indexer EXCEPT !.pc = "saved"]
    /\ UNCHANGED <<ibf, pre, op, inserted, file, saved, nOps, calls, clr, sem>>

NextIndexer ==
    \/ IndexerSpawn
    \/ IndexerLoopEnd
    \/ \E k \in Tasks : RunYaraIndexer(k)
    \/ \E k \in Tasks : TaskEnd(k)
    \/ IndexerGet
    \/ IndexerSave

SpecIndexer == InitIndexer /\ [][NextIndexer]_vars

(***************************************************************************)
(* Definitions used to state the properties.                               *)
(***************************************************************************)
Substrings(T) ==
    {SubSeq(T, i, j) : i \in 1..(Len(T) + 1), j \in 0..Len(T)}

\* the counts of a text in a filter, starting from a zeroed vector
CountOf(f, T) == count(f, Zeros(f.noOfBins), T)

\* base bit position of hash function i for fingerprint h
Mixer(f, h, i) == hashToIndex(MulNat64(f.preCalcValues[i], h), f)

\* number of fingerprints of T, with multiplicity, that test positive in bin b
RefCount(f, T, b) ==
    LET hs == getHash(T, f.kmerSize)
    IN  Cardinality({n \in 1..Len(hs) :
            \A i \in 1..f.noOfHashFunc : (Mixer(f, hs[n], i) + b) \in f.bitvector.bits})

\* the bits of column c (bin c of every block)
Column(f, c) == {p \in f.bitvector.bits : p % f.blockBitSize = c}

Bins(f) == 0..(f.noOfBins - 1)

(***************************************************************************)
(* C1  False-negative freedom: once insertKmer(T, b) has run, and whatever *)
(* was inserted afterwards, count(S)[b] >= |S| - k + 1 for every substring *)
(* S of T with |S| >= k.                                                   *)
(***************************************************************************)
C1_FalseNegativeFree ==
    \A c \in inserted :
        \A S \in Substrings(c[1]) :
            Len(S) >= ibf.kmerSize =>
                LET out == CountOf(ibf, S)
                IN  /\ ~out.ub
                    /\ out.v[c[2]] >= Len(S) - ibf.kmerSize + 1

\* a text with a proper substring of two k-mers was inserted, and a further
\* insertKmer call has run after it
C1_Witness ==
    /\ op.name = "insertKmer"
    /\ \E c \in inserted :
          /\ c # <<op.text, op.binNo>>
          /\ Len(c[1]) > ibf.kmerSize
          /\ CountOf(ibf, c[1]).v[c[2]] = Len(c[1]) - ibf.kmerSize + 1

(***************************************************************************)
(* C2  count agrees with the reference: it adds to counts[b] the number of *)
(* fingerprints of the text (with multiplicity) whose bit Mixer_i(h) + b   *)
(* is set for every hash function i; a bin with an all-zero column gets    *)
(* nothing; a substring S of a text inserted into b gets |S| - k + 1.      *)
(***************************************************************************)
C2_CountIsReference ==
    op.name = "count" =>
        /\ ~op.out.ub
        /\ DOMAIN op.out.v = Bins(ibf)
        /\ \A b \in Bins(ibf) :
              /\ op.out.v[b] = op.counts[b] + RefCount(ibf, op.text, b)
              /\ Column(ibf, b) = {} => op.out.v[b] = op.counts[b]
              /\ \A c \in inserted :
                    (/\ c[2] = b
                     /\ op.text \in Substrings(c[1])
                     /\ Len(op.text) >= ibf.kmerSize)
                    => op.out.v[b] = op.counts[b] + Len(op.text) - ibf.kmerSize + 1

\* count ran on a filter holding the last bin of a 64-bit column and found
\* two k-mers there, next to a bin that got nothing
C2_Witness ==
    /\ op.name = "count"
    /\ ibf.noOfBins >= intSize
    /\ \E b \in Bins(ibf) :
          b % intSize = intSize - 1 /\ op.out.v[b] = op.counts[b] + 2
    /\ \E b \in Bins(ibf) : Column(ibf, b) # {} /\ op.out.v[b] = op.counts[b]

(***************************************************************************)
(* C3  Clear correctness: after clear(bins, threads), every bit            *)
(* hashBlock * blockBitSize + b with b in bins is 0, count(T)[b] = 0 for   *)
(* every text and cleared b, and count(T)[b'] is unchanged for the others. *)
(***************************************************************************)
C3_ClearCorrect ==
    op.name = "clear" =>
        /\ \A hashBlock \in 0..(ibf.noOfBlocks - 1), b \in op.bins :
              (hashBlock * ibf.blockBitSize + b) \notin ibf.bitvector.bits
        /\ \A T \in Texts :
              LET after  == CountOf(ibf, T)
                  before == CountOf(pre, T)
              IN  /\ ~after.ub
                  /\ \A b \in Bins(ibf) :
                        after.v[b] = IF b \in op.bins THEN 0 ELSE before.v[b]

\* clear ran with a thread count that does not divide noOfBlocks, emptied a
\* column that had a bit in the last block, and left another bin populated
C3_Witness ==
    /\ op.name = "clear"
    /\ ibf.noOfBlocks % op.threads # 0
    /\ \E b \in op.bins :
          ((pre.noOfBlocks - 1) * pre.blockBitSize + b) \in pre.bitvector.bits
    /\ \E b \in Bins(ibf) \ op.bins : Column(ibf, b) # {}

(***************************************************************************)
(* C4  Resize preservation: resizeBins(n') with n' > noOfBins keeps        *)
(* noOfBlocks, moves bit b * oldBlockBitSize + i to b * newBlockBitSize +  *)
(* i, keeps every fingerprint in its block, keeps the counts of every text *)
(* on the original bins and gives 0 on the new bins.                       *)
(***************************************************************************)
C4_ResizePreserves ==
    op.name = "resizeBins" =>
        /\ ibf.noOfBlocks = pre.noOfBlocks
        /\ ibf.bitvector.bits =
              {(p \div pre.blockBitSize) * ibf.blockBitSize + (p % pre.blockBitSize)
                  : p \in pre.bitvector.bits}
        /\ \A T \in Texts :
              /\ \A n \in 1..Len(getHash(T, ibf.kmerSize)), i \in 1..ibf.noOfHashFunc :
                    Mixer(ibf, getHash(T, ibf.kmerSize)[n], i) \div ibf.blockBitSize
                    = Mixer(pre, getHash(T, pre.kmerSize)[n], i) \div pre.blockBitSize
              /\ LET after  == CountOf(ibf, T)
                     before == CountOf(pre, T)
                 IN  /\ ~after.ub
                     /\ \A b \in Bins(ibf) :
                           after.v[b] = IF b \in Bins(pre) THEN before.v[b] ELSE 0

\* resizeBins widened the blocks of a filter that holds bits beyond block 0
C4_Witness ==
    /\ op.name = "resizeBins"
    /\ ibf.blockBitSize > pre.blockBitSize
    /\ \E p \in pre.bitvector.bits : p >= pre.blockBitSize
    /\ \E T \in Texts, b \in Bins(pre) : CountOf(ibf, T).v[b] > 0

(***************************************************************************)
(* C5  select(text, threshold): selected[b] is true exactly when           *)
(* count(text)[b] >= threshold, whatever the vector held before the call.  *)
(***************************************************************************)
C5_SelectIsThreshold ==
    op.name = "select" =>
        \A b \in Bins(ibf) :
            op.out.v[b] = (CountOf(ibf, op.text).v[b] >= op.threshold)

(***************************************************************************)
(* C7  Short text: for a text shorter than kmerSize, insertKmer sets no    *)
(* bit and count leaves every count as it was, without failing.            *)
(***************************************************************************)
C7_ShortText ==
    /\ (op.name = "insertKmer" /\ Len(op.text) < pre.kmerSize) => ibf = pre
    /\ (op.name = "count" /\ Len(op.text) < ibf.kmerSize) =>
           (~op.out.ub /\ op.out.v = op.counts)

\* a non-empty short text was inserted, and a non-empty short text was
\* counted in a filter that holds bits
C7_Witness ==
    /\ op.name = "count"
    /\ Len(op.text) \in 1..(ibf.kmerSize - 1)
    /\ ibf.bitvector.bits # {}
    /\ \E c \in inserted : Len(c[1]) \in 1..(ibf.kmerSize - 1)

(***************************************************************************)
(* C8  Bin-column write frame: insertKmer(T, b) changes only bits of       *)
(* column b and only from 0 to 1; clear(bins, t) changes only bits of the  *)
(* columns in bins and only from 1 to 0; all other bits keep their value.  *)
(***************************************************************************)
C8_WriteFrame ==
    /\ op.name = "insertKmer" =>
          /\ pre.bitvector.bits \subseteq ibf.bitvector.bits
          /\ \A p \in ibf.bitvector.bits \ pre.bitvector.bits :
                p % ibf.blockBitSize = op.binNo
    /\ op.name = "clear" =>
          /\ ibf.bitvector.bits \subseteq pre.bitvector.bits
          /\ \A p \in pre.bitvector.bits \ ibf.bitvector.bits :
                (p % ibf.blockBitSize) \in op.bins

\* insertKmer set a bit in a bin other than bin 0 of a filter that already
\* held bits in another column
C8_Witness ==
    /\ op.name = "insertKmer"
    /\ op.binNo # 0
    /\ ibf.bitvector.bits # pre.bitvector.bits
    /\ \E p \in pre.bitvector.bits : p % pre.blockBitSize # op.binNo

C10_Geometry ==
    /\ ibf.noOfBins >= 1
    /\ ibf.binWidth * intSize >= ibf.noOfBins
    /\ (ibf.binWidth - 1) * intSize < ibf.noOfBins
    /\ ibf.blockBitSize = ibf.binWidth * intSize
    /\ ibf.noOfBins <= ibf.blockBitSize
    /\ ibf.blockBitSize < ibf.noOfBins + intSize
    /\ ibf.noOfBlocks * ibf.blockBitSize <= ibf.noOfBits
    /\ ibf.noOfBits < (ibf.noOfBlocks + 1) * ibf.blockBitSize

\* resizeBins added a column to a filter whose noOfBits was no multiple of
\* its blockBitSize
C10_Witness ==
    /\ op.name = "resizeBins"
    /\ ibf.binWidth > pre.binWidth
    /\ pre.noOfBits % pre.blockBitSize # 0

(***************************************************************************)
(* C6  Interleaving independence of inserts: whatever the interleaving of  *)
(* the atomic bit-sets of concurrent insertKmer calls, the bit vector ends *)
(* as after running the calls one after the other, in any order.           *)
(***************************************************************************)
RECURSIVE RunInOrder(_, _, _)
RunInOrder(f, order, j) ==
    IF j > Len(order) THEN f
    ELSE RunInOrder(insertKmer(f, calls[order[j]].text, calls[order[j]].binNo),
                    order, j + 1)

Orders == {o \in [Threads -> Threads] : \A t \in Threads : \E j \in Threads : o[j] = t}

C6_InsertsCommute ==
    (calls # <<>> /\ \A t \in Threads : Finished(calls[t])) =>
        \A o \in Orders : ibf.bitvector = RunInOrder(pre, o, 1).bitvector

\* two threads have finished inserting different texts of two k-mers each
\* that set a bit of the same block
C6_Witness ==
    /\ calls # <<>>
    /\ \A t \in Threads : Finished(calls[t])
    /\ \E t, u \in Threads :
          /\ calls[t].text # calls[u].text
          /\ Len(CallHashes(calls[t])) >= 2
          /\ Len(CallHashes(calls[u])) >= 2
          /\ \E p \in insertKmer(pre, calls[t].text, calls[t].binNo).bitvector.bits,
                q \in insertKmer(pre, calls[u].text, calls[u].binNo).bitvector.bits :
                p \div ibf.blockBitSize = q \div ibf.blockBitSize /\ p # q

(***************************************************************************)
(* C11  noOfBits is a multiple of blockBitSize.  As stated, for every      *)
(* filter new() constructs and in every state: C11_BitsMultipleOfBlock.    *)
(* As amended: insertKmer, clear and resizeBins keep noOfBits a multiple   *)
(* of blockBitSize once it is one, and it is one after every resizeBins.   *)
(***************************************************************************)
MultipleOfBlock(f) == f.noOfBits % f.blockBitSize = 0

C11_BitsMultipleOfBlock == MultipleOfBlock(ibf)

C11_MultiplePreserved ==
    op.name \in {"insertKmer", "clear", "resizeBins"} =>
        /\ MultipleOfBlock(pre) => MultipleOfBlock(ibf)
        /\ op.name = "resizeBins" => MultipleOfBlock(ibf)

\* resizeBins added a column to a filter whose noOfBits was no multiple of
\* its blockBitSize, and inserts followed
C11_Witness ==
    /\ op.name = "insertKmer"
    /\ ibf.bitvector.bits # pre.bitvector.bits
    /\ MultipleOfBlock(ibf)
    /\ ibf.binWidth = 2
    /\ ~MultipleOfBlock(saved.f)

(***************************************************************************)
(* C12  HashMixer: the base of fingerprint h under hash function i is      *)
(* ((v XOR (v >> 27)) mod noOfBlocks) * blockBitSize with v = h *          *)
(* preCalcValues[i] mod 2^64; it is a multiple of blockBitSize and at most *)
(* (noOfBlocks - 1) * blockBitSize; insertKmer sets exactly the bits base  *)
(* + binNo and count tests exactly the bits base + b.  The base is         *)
(* recomputed here bit by bit from the full 64 x 64 bit product.           *)
(***************************************************************************)
\* bit b of a 64-bit value
BitOf(a, b) == (a[(b \div 8) + 1] \div <<1, 2, 4, 8, 16, 32, 64, 128>>[(b % 8) + 1]) % 2

\* bit b of v XOR (v >> shiftValue)
MixedBit(v, b) ==
    (BitOf(v, b) + (IF b + shiftValue < intSize THEN BitOf(v, b + shiftValue) ELSE 0)) % 2

\* the bits of v XOR (v >> shiftValue), gathered into bytes
MixedBytes(v) ==
    [j \in 1..NBytes |->
        MixedBit(v, 8 * j - 8) + 2 * MixedBit(v, 8 * j - 7)
          + 4 * MixedBit(v, 8 * j - 6) + 8 * MixedBit(v, 8 * j - 5)
          + 16 * MixedBit(v, 8 * j - 4) + 32 * MixedBit(v, 8 * j - 3)
          + 64 * MixedBit(v, 8 * j - 2) + 128 * MixedBit(v, 8 * j - 1)]

RefBase(f, h, i) ==
    ModFrom(MixedBytes(Mul64(ToU64(h), f.preCalcValues[i])), f.noOfBlocks, NBytes, 0)
        * f.blockBitSize

HashFuncs(f) == 1..f.noOfHashFunc

C12_HashMixer ==
    op.name \in {"insertKmer", "count"} =>
        LET hs   == getHash(op.text, pre.kmerSize)
            ref  == [n \in 1..Len(hs) |->
                        [i \in HashFuncs(pre) |-> RefBase(pre, hs[n], i)]]
            base == [n \in 1..Len(hs) |->
                        [i \in HashFuncs(pre) |-> Mixer(pre, hs[n], i)]]
        IN  /\ \A n \in 1..Len(hs), i \in HashFuncs(pre) :
                 /\ base[n][i] = ref[n][i]
                 /\ base[n][i] % pre.blockBitSize = 0
                 /\ base[n][i] >= 0
                 /\ base[n][i] <= (pre.noOfBlocks - 1) * pre.blockBitSize
            /\ op.name = "insertKmer" =>
                 ibf.bitvector.bits = pre.bitvector.bits \cup
                     {ref[n][i] + op.binNo : n \in 1..Len(hs), i \in HashFuncs(pre)}
            /\ op.name = "count" =>
                 /\ ~op.out.ub
                 /\ \A b \in Bins(pre) :
                      op.out.v[b] - op.counts[b] =
                          Cardinality({n \in 1..Len(hs) :
                              \A i \in HashFuncs(pre) :
                                  (ref[n][i] + b) \in pre.bitvector.bits})

\* count found a text of two k-mers whose bases differ under one hash
\* function, one of them not in the first block and one of them changed by
\* the xor-shift
C12_Witness ==
    /\ op.name = "count"
    /\ \E b \in Bins(pre) : op.out.v[b] > op.counts[b]
    /\ LET hs == getHash(op.text, pre.kmerSize)
       IN  /\ Len(hs) >= 2
           /\ \E i \in HashFuncs(pre) :
                 /\ Mixer(pre, hs[1], i) # Mixer(pre, hs[2], i)
                 /\ Mixer(pre, hs[1], i) > 0
                 /\ Mixer(pre, hs[1], i) #
                       hashToIndex_noShift(MulNat64(pre.preCalcValues[i], hs[1]), pre)

(***************************************************************************)
(* C13  Chunked insert: insertKmer(text, binNo, chunkId) sets only bits    *)
(* derived from fingerprints whose mapped chunk (chunkMap applied to the   *)
(* significantBits bits at significantPositions) equals chunkId.           *)
(***************************************************************************)
ExtractBits(h, pos, nbits) == (h \div Pow(2, pos)) % Pow(2, nbits)

ChunkOf(f, h) ==
    f.chunkMap[ExtractBits(h, f.significantPositions, f.significantBits) + 1]

C13_ChunkedInsertSkips ==
    (op.name = "insertKmerChunk" /\ ~op.ub) =>
        LET hs == getHash(op.text, pre.kmerSize)
        IN  ibf.bitvector.bits \ pre.bitvector.bits \subseteq
                {Mixer(pre, hs[n], i) + op.binNo :
                    n \in {m \in 1..Len(hs) : ChunkOf(pre, hs[m]) = op.chunkNo},
                    i \in HashFuncs(pre)}

(***************************************************************************)
(* C15  resizeBins to fewer bins is rejected and leaves noOfBins,          *)
(* binWidth, blockBitSize, noOfBits and the bit vector unchanged.          *)
(***************************************************************************)
C15_ShrinkRejected ==
    (op.name = "resizeBins" /\ op.bins < pre.noOfBins) =>
        /\ ibf.noOfBins = pre.noOfBins
        /\ ibf.binWidth = pre.binWidth
        /\ ibf.blockBitSize = pre.blockBitSize
        /\ ibf.noOfBits = pre.noOfBits
        /\ ibf.bitvector = pre.bitvector

(***************************************************************************)
(* C16  Construction with kmerSize > 32, or with a zero argument, yields   *)
(* no usable filter: no member call ever runs on such an instance.         *)
(***************************************************************************)
C16_ConstructionRejects ==
    op.name \in {"insertKmerChunk", "count", "select", "resizeBins"} =>
        /\ pre.kmerSize \in 1..32
        /\ pre.noOfBins > 0
        /\ pre.noOfHashFunc > 0
        /\ pre.noOfBits > 0

(***************************************************************************)
(* C17  No query-time error: on every filter constructed with non-zero     *)
(* arguments count and select complete without a division by zero, a read  *)
(* beyond noOfBits or an index out of range.                               *)
(***************************************************************************)
C17_NoQueryError ==
    op.name \in {"count", "select"} => ~op.out.ub

(***************************************************************************)
(* C14  The workers of clear partition the blocks: the worker with taskNo  *)
(* handles the blocks from taskNo * batchSize up to, not including, the    *)
(* smaller of (taskNo + 1) * batchSize and noOfBlocks; the blocks of two   *)
(* workers are disjoint, as are the 64-bit words they write; and the       *)
(* workers of a call together handle every block.                          *)
(***************************************************************************)
\* the blocks of the k-th task spawned
StripeOf(k) == clearStripe(ibf, clr.tasks[k], clr.batchSize)

\* the 64-bit words of the bit vector the k-th task writes
WordsOf(k) ==
    {(hashBlock * ibf.bitvector.blockBitSize + binNo) \div intSize :
        hashBlock \in StripeOf(k), binNo \in clr.bins}

\* the tasks that have a block to handle
Busy == {k \in 1..Len(clr.tasks) : StripeOf(k) # {}}

C14_WorkersPartition ==
    clr.pc # "idle" =>
        /\ \A k \in Busy :
              LET first == clr.tasks[k] * clr.batchSize
                  last  == IF (clr.tasks[k] + 1) * clr.batchSize < ibf.noOfBlocks
                           THEN (clr.tasks[k] + 1) * clr.batchSize
                           ELSE ibf.noOfBlocks
              IN  StripeOf(k) = first..(last - 1)
        /\ \A j, k \in Busy :
              j # k => /\ StripeOf(j) \cap StripeOf(k) = {}
                       /\ WordsOf(j) \cap WordsOf(k) = {}
        /\ clr.pc \in {"join", "returned"} =>
              UNION {StripeOf(k) : k \in Busy} = 0..(ibf.noOfBlocks - 1)

RECURSIVE AllSeqsOfLen(_)
AllSeqsOfLen(n) ==
    IF n = 0 THEN {<<>>}
    ELSE {Append(t, c) : t \in AllSeqsOfLen(n - 1), c \in 0..(Sigma - 1)}

AllTexts == UNION {AllSeqsOfLen(n) : n \in 0..MaxLen}

\* text[p] * Sigma^(k-1) + ... + text[p+k-1], by Horner's rule
RECURSIVE DirectHash(_, _, _, _)
DirectHash(text, p, k, acc) ==
    IF k = 0 THEN acc ELSE DirectHash(text, p + 1, k - 1, acc * Sigma + text[p])

\* a * n + carry on NBytes + 1 bytes
RECURSIVE WideLimbs(_, _, _, _)
WideLimbs(a, n, j, carry) ==
    IF j > NBytes + 1 THEN <<>>
    ELSE LET s == a[j] * n + carry
         IN  <<s % Byte>> \o WideLimbs(a, n, j + 1, s \div Byte)

\* the fingerprint of k symbols of the highest rank, on NBytes + 1 bytes,
\* four symbols at a time while four are left
RECURSIVE MaxFingerprint(_)
MaxFingerprint(k) ==
    IF k = 0 THEN [j \in 1..(NBytes + 1) |-> 0]
    ELSE IF k >= 4
         THEN WideLimbs(MaxFingerprint(k - 4), Pow(Sigma, 4), 1, Pow(Sigma, 4) - 1)
         ELSE WideLimbs(MaxFingerprint(k - 1), Sigma, 1, Sigma - 1)

C19_KmerShape ==
    LET k == ibf.kmerSize
    IN  /\ \A T \in AllTexts :
              LET hs == getHash(T, k)
              IN  Len(T) >= k =>
                    /\ Len(hs) = Len(T) - k + 1
                    /\ \A p \in 1..Len(hs) : hs[p] = DirectHash(T, p, k, 0)
        /\ op.name = "insertKmer" =>
              LET T == op.text
              IN  ibf.bitvector.bits = pre.bitvector.bits \cup
                      {Mixer(pre, DirectHash(T, p, k, 0), i) + op.binNo :
                          p \in 1..(Len(T) - k + 1), i \in HashFuncs(pre)}
        /\ MaxFingerprint(32)[NBytes + 1] = 0

\* a text longer than kmerSize was inserted: the shape rolled
C19_Witness ==
    /\ op.name = "insertKmer"
    /\ Len(op.text) > pre.kmerSize
    /\ Len(getHash(op.text, pre.kmerSize)) = 2
    /\ ibf.bitvector.bits # pre.bitvector.bits

(***************************************************************************)
(* C20  preCalcValues has noOfHashFunc entries, entry i is i XOR           *)
(* (kmerSize * seedValue mod 2^64), the entries are pairwise distinct, and *)
(* insertKmer, count, select, clear and resizeBins leave them unchanged.   *)
(***************************************************************************)
C20_PreCalcValues ==
    LET ks == MulNat64(seedValue, ibf.kmerSize)
    IN  /\ Len(ibf.preCalcValues) = ibf.noOfHashFunc
        /\ \A i \in HashFuncs(ibf), b \in 0..(intSize - 1) :
              BitOf(ibf.preCalcValues[i], b) =
                  (BitOf(ToU64(i - 1), b) + BitOf(ks, b)) % 2
        /\ \A i, j \in HashFuncs(ibf) :
              i # j => ibf.preCalcValues[i] # ibf.preCalcValues[j]
        /\ op.name \in {"insertKmer", "count", "select", "clear", "resizeBins"} =>
              ibf.preCalcValues = pre.preCalcValues

\* a filter with two hash functions was resized after an insert or a clear
C20_Witness ==
    /\ op.name = "resizeBins"
    /\ ibf.noOfHashFunc = 2
    /\ ibf.binWidth > pre.binWidth
    /\ nOps >= 2

(***************************************************************************)
(* C21  Word decoding in count: for every value of the and-ed word of      *)
(* column w the decoding adds one to counts[w * 64 + j] for each set bit j *)
(* of the word, changes no other entry, and never shifts by 64 or more.    *)
(***************************************************************************)
C21_DecodeWord ==
    op.name = "decode" =>
        /\ ~op.out.ub
        /\ \A b \in DOMAIN op.out.v :
              op.out.v[b] = IF (b - op.batchNo * intSize) \in op.tmp THEN 1 ELSE 0

\* a word with bit 63 and other bits set, in the second column, was decoded
C21_Witness ==
    /\ op.name = "decode"
    /\ op.batchNo = 1
    /\ (intSize - 1) \in op.tmp
    /\ Cardinality(op.tmp) >= 3
    /\ op.out.v[2 * intSize - 1] = 1

(***************************************************************************)
(* C22  clear(bins, threads) terminates for every thread count, also for   *)
(* 256 and more, and spawns exactly threads workers: the task loop never   *)
(* spawns more than threads tasks, and it has spawned threads tasks when   *)
(* it ends.                                                                *)
(***************************************************************************)
C22_ClearSpawnsThreads ==
    clr.pc # "idle" =>
        /\ Len(clr.tasks) <= clr.threads
        /\ clr.pc \in {"join", "returned"} => Len(clr.tasks) = clr.threads

(***************************************************************************)
(* C23  clear joins all workers before it returns: when clear has          *)
(* returned every worker it spawned has finished its stripe, so no worker  *)
(* writes after the return.                                                *)
(***************************************************************************)
C23_JoinBeforeReturn ==
    clr.pc = "returned" => clr.done = 1..Len(clr.tasks)

\* a clear with three workers has returned and has cleared bits
C23_Witness ==
    /\ clr.pc = "returned"
    /\ Len(clr.tasks) = MaxThreads
    /\ clr.done = 1..MaxThreads
    /\ ibf.bitvector.bits # pre.bitvector.bits

(***************************************************************************)
(* C24  insertKmer, in both overloads, writes no filter state other than   *)
(* bits of the bit vector, so concurrent chunked inserts with different    *)
(* chunk numbers write no common field that is not atomic.                 *)
(***************************************************************************)
C24_InsertWritesOnlyBits ==
    op.name \in {"insertKmer", "insertKmerChunk"} =>
        [ibf EXCEPT !.bitvector = pre.bitvector] = pre

(***************************************************************************)
(* C25  The metadata tail is never written by the filter: in a filter      *)
(* whose noOfBits includes the trailing filterMetadataSize bits, no        *)
(* insertKmer and no clear changes a bit at a position from noOfBits -     *)
(* filterMetadataSize on.                                                  *)
(***************************************************************************)
C25_TailUntouched ==
    (op.name \in {"insertKmer", "clear"} /\ pre.noOfBits >= filterMetadataSize) =>
        \A p \in (ibf.bitvector.bits \ pre.bitvector.bits)
                    \cup (pre.bitvector.bits \ ibf.bitvector.bits) :
            p < pre.noOfBits - filterMetadataSize

(***************************************************************************)
(* C26  Padding columns stay zero: after inserts into bins below noOfBins, *)
(* clears and growing resizeBins calls, every bit in a column from         *)
(* noOfBins up to blockBitSize is 0, so count never increments counts at   *)
(* an index of noOfBins or more.                                           *)
(***************************************************************************)
C26_PaddingZero ==
    /\ \A p \in ibf.bitvector.bits : (p % ibf.blockBitSize) < ibf.noOfBins
    /\ op.name \in {"count", "select"} => ~op.out.ub

\* count found a text in the last bin of a filter that has padding columns
C26_Witness ==
    /\ op.name = "count"
    /\ ibf.noOfBins < ibf.blockBitSize
    /\ Column(ibf, ibf.noOfBins - 1) # {}
    /\ op.out.v[ibf.noOfBins - 1] > op.counts[ibf.noOfBins - 1]

(***************************************************************************)
(* C27  resizeBins never shrinks the vector: for every filter and every    *)
(* bin count above noOfBins, noOfBits after the call is at least noOfBits  *)
(* before it and equals the old noOfBits times newBinWidth / oldBinWidth.  *)
(***************************************************************************)
C27_ResizeNeverShrinks ==
    (op.name = "resizeBins" /\ op.bins > pre.noOfBins) =>
        /\ ibf.noOfBits >= pre.noOfBits
        /\ ibf.noOfBits * pre.binWidth = pre.noOfBits * ibf.binWidth

(***************************************************************************)
(* C28  Copy and move assignment preserve the filter: after a = b, a has   *)
(* b's constructor arguments, bit vector, derived geometry, preCalcValues  *)
(* and chunk fields, also when b had a non-default chunkMap or had been    *)
(* resized.                                                                *)
(***************************************************************************)
C28_AssignPreserves ==
    op.name \in {"copyAssign", "moveAssign"} =>
        /\ ibf.noOfBins = pre.noOfBins
        /\ ibf.noOfHashFunc = pre.noOfHashFunc
        /\ ibf.kmerSize = pre.kmerSize
        /\ ibf.noOfBits = pre.noOfBits
        /\ ibf.bitvector = pre.bitvector
        /\ ibf.binWidth = pre.binWidth
        /\ ibf.blockBitSize = pre.blockBitSize
        /\ ibf.noOfBlocks = pre.noOfBlocks
        /\ ibf.preCalcValues = pre.preCalcValues
        /\ ibf.chunkMap = pre.chunkMap
        /\ ibf.significantPositions = pre.significantPositions
        /\ ibf.significantBits = pre.significantBits
        /\ ibf.effectiveChunks = pre.effectiveChunks
        /\ ibf.chunkOffset = pre.chunkOffset

TimesIndexed(b) == IF b < TaskNoRange THEN indexer.indexed[b] ELSE 0

C30_BinCoverage ==
    /\ \A b \in 0..(TaskNoRange - 1) :
          /\ indexer.indexed[b] <= 1
          /\ b >= indexer.numberOfBins => indexer.indexed[b] = 0
    /\ indexer.pc = "saved" =>
          /\ \A k \in Tasks : indexer.tasks[k].done
          /\ \A b \in 0..(indexer.numberOfBins - 1) : TimesIndexed(b) = 1

====
